---- MODULE Spec2Model ----
(***************************************************************************)
(* A model of the editor pipeline of helio_tools:                          *)
(*   - BrightestPixelPatchEditor / DarkestPixelPatchEditor (editors.py),   *)
(*   - correct_degregation and its cached tables (calibration.py),         *)
(*   - the pixel-exact crop of normalize_radius (scale.py, editors.py).    *)
(* Each subsystem has its own specification over the shared variables.     *)
(***************************************************************************)
EXTENDS Integers, Sequences, FiniteSets, TLC

VARIABLES
    \* ---- patch selector (editors.py, Brightest/DarkestPixelPatchEditor) ----
    pe_kind,            \* "Brightest" or "Darkest": which editor class is called
    data,               \* the input array, data[c][r][w], pixel = level * pe_unit
    pe_unit,            \* float32 significand of the pixel unit (value of level 1)
    patch_shape,        \* self.patch_shape, <<ph, pw>>
    idx,                \* self.idx
    random_selection,   \* self.random_selection, in units of 1/DrawUnits
    pe_pc,              \* "ready", "returned", "raised"
    pe_u,               \* the value random.random() returned, in units of 1/DrawUnits
    pe_branch,          \* "none", "random", "extremum"
    pe_pos,             \* <<x, y>> after line 114-115 resp. 127-128
    pe_picked,          \* the pixel argwhere/randint picked, before clamping
    pe_rand,            \* the values the randint calls returned, in call order
    patch,              \* the returned patch (a C x h x w array) or NoPatch
    pe_error,           \* "none", "AssertionError"
    \* ---- correct_degregation (calibration.py) ----
    cd_method,          \* the argument method
    cd_dtype,           \* dtype of s_map.data: "int", "float32", "float64"
    cd_data,            \* s_map.data, flattened
    cd_meta,            \* s_map.meta: [wavelnth, exptime], and s_map.date as .date
    cd_pc,              \* "ready", "returned", "raised"
    cd_error,           \* "none", "ValueError", "TypeError", "IndexError"
    cd_msg,             \* the method names the error message lists
    cd_out,             \* the data of the returned Map, or <<>>
    cd_scalar,          \* the table entry the data was divided by, or NoScalar
    cd_post,            \* whether lines 122-124 (the exposure post-step) ran
    cd_calls,           \* the number of calls of correct_degregation so far
    \* ---- the two cached tables (calibration.py) ----
    remote_csv,         \* the table the remote server holds
    file_exists,        \* per table function: whether its local file exists
    lru,                \* per table function: the cached object, or NoObject
    body_runs,          \* per table function: executions of the wrapped body
    fetches,            \* per table function: remote downloads
    lookups,            \* per table function: calls of the cached function
    next_obj,           \* the identity the next created table object gets
    returned,           \* per table function: the objects its callers received
    \* ---- threads calling the cached table functions ----
    th_pc,              \* per thread: "idle", "body", "fetch", "read", "write", "store"
    th_fn,              \* per thread: the table function it is in
    th_res,             \* per thread: the object its body produced
    th_calls,           \* the number of calls the threads have started
    \* ---- the crop of normalize_radius (scale.py, editors.py) ----
    cr_caller,          \* "_crop_resolution" or "NormalizeRadiusEditor"
    cr_resolution,      \* the argument resolution
    cr_rotated,         \* shape <<rows, cols>> of the map after rotate
    cr_first,           \* the first crop: [bottom, top, left, right), or NoCrop
    cr_second,          \* the second crop, in the first crop's pixels, or NoCrop
    cr_pc,              \* "ready", "returned"
    \* ---- a chain of Editor.convert calls (editors.py) ----
    ch_pc,              \* "idle", "run"
    ch_data,            \* the data handed from stage to stage
    ch_kwargs,          \* the side channel handed from stage to stage
    ch_init,            \* the side channel the chain started with
    ch_arg,             \* the caller's mapping, as it is after the last call
    ch_seen,            \* per stage: the kwargs its call received
    ch_adds,            \* per stage: the additions it returned
    ch_tupled,          \* per stage: whether call returned a tuple
    ch_kinds,           \* per stage: the editor class
    ed_fields,          \* the fields of the editors
    ed_before,          \* the fields as they were before the last call
    warn_filters,       \* warnings.filters of the process
    warn_before,        \* warnings.filters as it was before the last call
    \* ---- the normalizing editors (editors.py) ----
    nm_editor,          \* "MinMaxQuantileNormalizeEditor" or "WhiteningEditor"
    nm_in,              \* the input array, flattened
    nm_out,             \* the output array
    nm_div,             \* WhiteningEditor: the divisor data_std + 1e-6, see Whiten
    nm_pc,              \* "ready", "returned"
    \* ---- SDODownloader (data/sdo/base.py) ----
    sd_pc,              \* "idle", "dd_euv", "fb_hmi", "fb_euv", "pool"
    sd_calls,           \* the number of downloadDate calls started
    sd_hmi,             \* the records of the direct HMI query of this call
    sd_euv,             \* the records of the direct EUV query of this call
    sd_euv_queried,     \* whether this call issued the direct EUV query
    sd_fb_runs,         \* how often this call entered fetchDataFallback
    sd_tmp,             \* fetchDataFallback: the records of the last widened query
    sd_wl,              \* fetchDataFallback: position in self.wavelengths
    sd_wide,            \* per wavelength: widened queries issued by this call
    sd_picked,          \* fetchDataFallback: the records chosen so far
    sd_nearest,         \* per chosen record: the least distance among the usable ones
    sd_queue,           \* the samples handed to the worker pool
    sd_item,            \* position of the pool in the queue
    sd_files,           \* per wavelength directory: "absent", "raw" (no header keys), "ready"
    sd_error,           \* how the last call ended: "none", "AssertionError", "download"
    \* ---- SOLODownloader (data/solo/base.py) ----
    so_pc,              \* "idle", "fsi", "hri"
    so_calls,           \* the number of downloadDate calls started
    so_hri,             \* the argument download_hri of this call
    so_i,               \* position in self.wavelengths[1::]
    so_files,           \* per FSI product: whether its target file exists
    so_before,          \* so_files as it was when this call started
    so_collected,       \* the list files of this call
    so_created,         \* the products whose target file this call stored
    so_search,          \* the sorted search result of the last downloadFSI
    so_fsi,             \* the course of the last downloadFSI, see FsiRun
    so_result           \* how the last call ended: "none", "complete", "logged"

pe_vars == <<pe_kind, data, pe_unit, patch_shape, idx, random_selection, pe_pc,
             pe_u, pe_branch, pe_pos, pe_picked, pe_rand, patch, pe_error>>

cd_vars == <<cd_method, cd_dtype, cd_data, cd_meta, cd_pc, cd_error, cd_msg,
             cd_out, cd_scalar, cd_post, cd_calls>>

tb_vars == <<remote_csv, file_exists, lru, body_runs, fetches, lookups, next_obj,
             returned>>

th_vars == <<th_pc, th_fn, th_res, th_calls>>

cr_vars == <<cr_caller, cr_resolution, cr_rotated, cr_first, cr_second, cr_pc>>

ch_vars == <<ch_pc, ch_data, ch_kwargs, ch_init, ch_arg, ch_seen, ch_adds, ch_tupled,
             ch_kinds, ed_fields, ed_before, warn_filters, warn_before>>

nm_vars == <<nm_editor, nm_in, nm_out, nm_div, nm_pc>>

sd_vars == <<sd_pc, sd_calls, sd_hmi, sd_euv, sd_euv_queried, sd_fb_runs, sd_tmp, sd_wl,
             sd_wide, sd_picked, sd_nearest, sd_queue, sd_item, sd_files, sd_error>>

so_vars == <<so_pc, so_calls, so_hri, so_i, so_files, so_before, so_collected, so_created,
             so_search, so_fsi, so_result>>

vars == <<pe_vars, cd_vars, tb_vars, th_vars, cr_vars, ch_vars, nm_vars, sd_vars, so_vars>>

\* the variables each specification leaves alone
NotPatch == <<cd_vars, tb_vars, th_vars, cr_vars, ch_vars, nm_vars, sd_vars, so_vars>>
NotCalib == <<pe_vars, th_vars, cr_vars, ch_vars, nm_vars, sd_vars, so_vars>>
NotCache == <<pe_vars, cd_vars, cr_vars, ch_vars, nm_vars, sd_vars, so_vars>>
NotCrop == <<pe_vars, cd_vars, tb_vars, th_vars, ch_vars, nm_vars, sd_vars, so_vars>>
NotChain == <<pe_vars, cd_vars, tb_vars, th_vars, cr_vars, nm_vars, sd_vars, so_vars>>
NotNorm == <<pe_vars, cd_vars, tb_vars, th_vars, cr_vars, ch_vars, sd_vars, so_vars>>
NotSdo == <<pe_vars, cd_vars, tb_vars, th_vars, cr_vars, ch_vars, nm_vars, so_vars>>
NotSolo == <<pe_vars, cd_vars, tb_vars, th_vars, cr_vars, ch_vars, nm_vars, sd_vars>>

-----------------------------------------------------------------------------
(* Bounds of the patch-selector model *)

\* the largest height and width of an input array and of patch_shape
MaxSide == 3
\* random.random() returns k / 2^53 with 0 <= k < 2^53; the model keeps
\* DrawUnits equally spaced values of it, 0 included.
DrawUnits == 2

ChannelCounts == {1, 2}

Levels == {0, 1}
\* float32 significands (24 bits) of the unit a pixel level is multiplied by:
\* 8388608 * 2^-23 = 1.0f and 15099494 * 2^-24 = 0.9f
Units == {8388608, 15099494}

NoPatch == <<>>
NoPos == <<>>

-----------------------------------------------------------------------------
(* Python helpers *)

Min2(a, b) == IF a <= b THEN a ELSE b
Max2(a, b) == IF a >= b THEN a ELSE b

\* int(np.floor(n / 2)) and int(np.ceil(n / 2)) for n >= 0
FloorHalf(n) == n \div 2
CeilHalf(n) == (n + 1) \div 2

\* a[lo:hi] on an axis of length n: the index range Python's slice produces
\* (negative bounds count from the end, both bounds are clipped to 0..n).
SliceBound(b, n) == IF b < 0 THEN Max2(b + n, 0) ELSE Min2(b, n)
PySlice(lo, hi, n) ==
    LET s == SliceBound(lo, n)
        e == SliceBound(hi, n)
    IN  [start |-> s, len |-> Max2(e - s, 0)]

\* f itself, with its values computed once instead of at every application
Explicit(f) == f @@ <<>>

NChannels(a) == Cardinality(DOMAIN a)
NRows(a) == Cardinality(DOMAIN a[0])
NCols(a) == Cardinality(DOMAIN a[0][0])

\* data[:, x0:x1, y0:y1]
SubArray(a, x0, x1, y0, y1) ==
    LET sx == PySlice(x0, x1, NRows(a))
        sy == PySlice(y0, y1, NCols(a))
    IN  Explicit([c \in DOMAIN a |->
            Explicit([r \in 0..(sx.len - 1) |->
                Explicit([w \in 0..(sy.len - 1) |->
                    a[c][sx.start + r][sy.start + w]])])])

\* the elements of an array in C order
RECURSIVE FlattenFrom(_, _, _, _)
FlattenFrom(a, c, r, w) ==
    IF c >= NChannels(a) THEN <<>>
    ELSE IF r >= Cardinality(DOMAIN a[c]) THEN FlattenFrom(a, c + 1, 0, 0)
    ELSE IF w >= Cardinality(DOMAIN a[c][r]) THEN FlattenFrom(a, c, r + 1, 0)
    ELSE <<a[c][r][w]>> \o FlattenFrom(a, c, r, w + 1)
Flatten(a) == FlattenFrom(a, 0, 0, 0)

-----------------------------------------------------------------------------
(* numpy float32 arithmetic, as far as np.std(patch) != 0 needs it.         *)
(* A pixel is level * unit; all quantities below are integers in units of  *)
(* the unit's last place (ulp), so a level-1 pixel is the significand      *)
(* pe_unit itself, 2^23 <= pe_unit < 2^24.                                 *)

Two23 == 2^23
Two24 == 2^24

RECURSIVE StepOf(_, _)
\* the spacing of float32 numbers around x >= 0: the least power of two s
\* with x < 2^24 * s
StepOf(x, s) == IF x < Two24 * s THEN s ELSE StepOf(x, 2 * s)

\* a / n rounded to the nearest integer, ties to even
DivRNE(a, n) ==
    LET q == a \div n
        r == a % n
    IN  IF 2 * r < n THEN q
        ELSE IF 2 * r > n THEN q + 1
        ELSE IF q % 2 = 0 THEN q ELSE q + 1

\* round x to 24 significant bits (round-to-nearest-even)
Round24(x) == LET s == StepOf(x, 1) IN DivRNE(x, s) * s

\* float32 addition of two non-negative values
FlAdd(a, b) == Round24(a + b)

RECURSIVE FlSumFrom(_, _, _)
FlSumFrom(e, i, acc) ==
    IF i > Len(e) THEN acc ELSE FlSumFrom(e, i + 1, FlAdd(acc, e[i]))
\* umr_sum(arr): float32 accumulation over the elements
FlSum(e) == IF Len(e) = 0 THEN 0 ELSE FlSumFrom(e, 2, e[1])

RECURSIVE ScaleOf(_, _, _)
\* the least k >= 0 with s * 2^k >= n * 2^23 (s > 0), given as the factor 2^k
ScaleOf(s, n, f) == IF s * f >= n * Two23 THEN f ELSE ScaleOf(s, n, 2 * f)

\* arrmean = umr_sum(arr) / n in float32, as [f |-> 2^k, m |-> significand]:
\* the mean is m / f.  Every element is below 2^24, hence so is the quotient.
FlMean(e) ==
    LET s == FlSum(e)
        n == Len(e)
    IN  IF s = 0 THEN [f |-> 1, m |-> 0]
        ELSE LET f == ScaleOf(s, n, 1) IN [f |-> f, m |-> DivRNE(s * f, n)]

\* np.std(a) != 0: sqrt(mean((a - arrmean)^2)) is non-zero exactly when some
\* element differs from the float32 mean (no underflow at these magnitudes).
NpStdNonZero(e) ==
    LET mu == FlMean(e)
    IN  \E i \in 1..Len(e) : e[i] * mu.f # mu.m

-----------------------------------------------------------------------------
(* scipy.ndimage.gaussian_filter(channel, sigma=5): a separable correlation *)
(* with the kernel exp(-d^2 / (2 sigma^2)), |d| <= int(4 sigma + 0.5) = 20, *)
(* boundary mode 'reflect' (d c b a | a b c d | d c b a).  The weights are  *)
(* scaled by 1000 and not normalised: a common positive factor changes      *)
(* neither the position of the extremum nor the ties.                       *)

GaussWeights ==
    <<1000, 980, 923, 835, 726, 607, 487, 375, 278, 198, 135,
      89, 56, 34, 20, 11, 6, 3, 2, 1, 0>>
GaussRadius == Len(GaussWeights) - 1

Abs(x) == IF x < 0 THEN -x ELSE x

\* the index mode='reflect' reads for position i of an axis of length n
Reflect(i, n) ==
    LET m == i % (2 * n)
    IN  IF m < n THEN m ELSE 2 * n - 1 - m

RECURSIVE TapSum(_, _, _, _)
\* the total weight output pixel i takes from input pixel j (taps d..Radius)
TapSum(n, i, j, d) ==
    IF d > GaussRadius THEN 0
    ELSE (IF Reflect(i + d, n) = j THEN GaussWeights[Abs(d) + 1] ELSE 0)
         + TapSum(n, i, j, d + 1)

\* EffKernel[n][i][j]: the 1-D filter on an axis of length n, as a matrix
EffKernel ==
    Explicit([n \in 1..MaxSide |->
        Explicit([i \in 0..(n - 1) |->
            Explicit([j \in 0..(n - 1) |-> TapSum(n, i, j, -GaussRadius)])])])

RECURSIVE DotFrom(_, _, _, _)
DotFrom(k, v, j, n) ==
    IF j >= n THEN 0 ELSE k[j] * v[j] + DotFrom(k, v, j + 1, n)

\* gaussian_filter of one channel ch[r][w]: filter along axis 0, then axis 1
GaussianFilter(ch) ==
    LET h == Cardinality(DOMAIN ch)
        w == Cardinality(DOMAIN ch[0])
        pass0 == Explicit([r \in 0..(h - 1) |-> Explicit([c \in 0..(w - 1) |->
                    DotFrom(EffKernel[h][r], [j \in 0..(h - 1) |-> ch[j][c]], 0, h)])])
    IN  Explicit([r \in 0..(h - 1) |-> Explicit([c \in 0..(w - 1) |->
            DotFrom(EffKernel[w][c], pass0[r], 0, w)])])

-----------------------------------------------------------------------------
(* BrightestPixelPatchEditor.call / DarkestPixelPatchEditor.call *)

RECURSIVE ArgWhereFrom(_, _, _, _)
\* np.argwhere(smoothed == v): the matching positions in row-major order
ArgWhereFrom(sm, v, r, w) ==
    IF r >= Cardinality(DOMAIN sm) THEN <<>>
    ELSE IF w >= Cardinality(DOMAIN sm[0]) THEN ArgWhereFrom(sm, v, r + 1, 0)
    ELSE (IF sm[r][w] = v THEN <<(<<r, w>>)>> ELSE <<>>) \o ArgWhereFrom(sm, v, r, w + 1)
ArgWhere(sm, v) == ArgWhereFrom(sm, v, 0, 0)

ChannelValues(sm) == {sm[r][w] : r \in DOMAIN sm, w \in DOMAIN sm[0]}
\* np.nanmax / np.nanmin of an array without NaN
NanMax(sm) == CHOOSE v \in ChannelValues(sm) : \A o \in ChannelValues(sm) : o <= v
NanMin(sm) == CHOOSE v \in ChannelValues(sm) : \A o \in ChannelValues(sm) : v <= o

\* a variant that keeps the centre a whole patch side off the far border
ClampCenterBySize(p, n, size) == Max2(Min2(p, n - size), size \div 2)

\* lines 122-125 (171-174): np.min against shape - patch // 2, then np.max
\* against patch // 2
ClampCenter(p, n, size) == Max2(Min2(p, n - size \div 2), size \div 2)

\* lines 129-131 (178-180)
CenteredPatch(a, x, y, ps) ==
    SubArray(a, x - FloorHalf(ps[1]), x + CeilHalf(ps[1]),
                y - FloorHalf(ps[2]), y + CeilHalf(ps[2]))

\* lines 116-117 (165-166)
OffsetPatch(a, x, y, ps) == SubArray(a, x, x + ps[1], y, y + ps[2])

\* the pixel values of a patch as float32 significand multiples
PatchElems(p) ==
    LET f == Flatten(p) IN Explicit([i \in 1..Len(f) |-> f[i] * pe_unit])

\* random.random() <= self.random_selection
TakesRandomBranch(u, rs) == u <= rs

\* lines 132-134 (181-183): the final assert and the return
Finish(p, branch, pos, picked, u, rnd) ==
    /\ pe_u' = u
    /\ pe_branch' = branch
    /\ pe_pos' = pos
    /\ pe_picked' = picked
    /\ pe_rand' = rnd
    /\ IF NpStdNonZero(PatchElems(p))
       THEN /\ pe_pc' = "returned"
            /\ patch' = p
            /\ pe_error' = "none"
       ELSE /\ pe_pc' = "raised"
            /\ patch' = NoPatch
            /\ pe_error' = "AssertionError"

\* line 120: np.nanmax(smoothed); line 169: np.nanmin(smoothed)
Extremum(kind, sm) == IF kind = "Brightest" THEN NanMax(sm) ELSE NanMin(sm)

\* the body of call, which the two editors share but for the extremum
PatchCall(kind) ==
    LET h == NRows(data)
        w == NCols(data)
    IN
    /\ pe_pc = "ready"
    /\ UNCHANGED <<pe_kind, data, pe_unit, patch_shape, idx, random_selection>>
    /\ IF h < patch_shape[1] \/ w < patch_shape[2]
       THEN \* the two shape asserts
            /\ pe_pc' = "raised"
            /\ pe_error' = "AssertionError"
            /\ patch' = NoPatch
            /\ UNCHANGED <<pe_u, pe_branch, pe_pos, pe_picked, pe_rand>>
       ELSE \E u \in 0..(DrawUnits - 1) :
            IF TakesRandomBranch(u, random_selection)
            THEN \E x \in 0..(h - patch_shape[1]), y \in 0..(w - patch_shape[2]) :
                    Finish(OffsetPatch(data, x, y, patch_shape),
                           "random", <<x, y>>, NoPos, u, <<x, y>>)
            ELSE LET smoothed == GaussianFilter(data[idx])
                     pixel_pos == ArgWhere(smoothed, Extremum(kind, smoothed))
                 IN  \E k \in 0..(Len(pixel_pos) - 1) :
                        LET pick == pixel_pos[k + 1]
                            x == ClampCenter(pick[1], h, patch_shape[1])
                            y == ClampCenter(pick[2], w, patch_shape[2])
                        IN  Finish(CenteredPatch(data, x, y, patch_shape),
                                   "extremum", <<x, y>>, pick, u, <<k>>)

BrightestCall == pe_kind = "Brightest" /\ PatchCall("Brightest")
DarkestCall == pe_kind = "Darkest" /\ PatchCall("Darkest")

\* the arrays the model feeds the editors: C x H x W, uniform (level 0 or 1)
\* or level 0 with one level-1 pixel in the last channel
Uniform(c, h, w, v) ==
    [ch \in 0..(c - 1) |-> [r \in 0..(h - 1) |-> [q \in 0..(w - 1) |-> v]]]
OneSpot(c, h, w, sr, sq) ==
    [ch \in 0..(c - 1) |-> [r \in 0..(h - 1) |-> [q \in 0..(w - 1) |->
        IF ch = c - 1 /\ r = sr /\ q = sq THEN 1 ELSE 0]]]
Images(c, h, w) ==
    {Uniform(c, h, w, v) : v \in Levels}
    \cup {OneSpot(c, h, w, sr, sq) : sr \in 0..(h - 1), sq \in 0..(w - 1)}

PatchStart ==
    /\ pe_kind \in {"Brightest", "Darkest"}
    /\ \E c \in ChannelCounts, h \in 1..MaxSide, w \in 1..MaxSide :
          /\ data \in Images(c, h, w)
          /\ idx \in 0..(c - 1)
    /\ pe_unit \in Units
    /\ patch_shape \in (1..MaxSide) \X (1..MaxSide)
    /\ random_selection \in {0, DrawUnits}
    /\ pe_pc = "ready"
    /\ pe_u = -1
    /\ pe_branch = "none"
    /\ pe_pos = NoPos
    /\ pe_picked = NoPos
    /\ pe_rand = <<>>
    /\ patch = NoPatch
    /\ pe_error = "none"


-----------------------------------------------------------------------------
(* Claims about the patch selector *)

IsConstant(a) ==
    LET f == Flatten(a) IN \A i, j \in 1..Len(f) : f[i] = f[j]
ChannelIsConstant(ch) ==
    \A r1, r2 \in DOMAIN ch : \A w1, w2 \in DOMAIN ch[0] : ch[r1][w1] = ch[r2][w2]

\* C1: the call fails or returns a patch whose two spatial dimensions are
\* exactly patch_shape; an input smaller than patch_shape fails.
C1_PatchHasPatchShape ==
    /\ pe_pc = "returned" =>
          /\ NRows(patch) = patch_shape[1]
          /\ NCols(patch) = patch_shape[2]
    /\ (pe_pc # "ready" /\ (NRows(data) < patch_shape[1] \/ NCols(data) < patch_shape[2]))
          => pe_pc = "raised"

\* C2: with random_selection = 0 the extremum branch is always taken, with
\* random_selection = 1 the random branch, whatever random.random() returns.
C2_BranchFollowsSelection ==
    pe_branch # "none" =>
        /\ random_selection = 0 => pe_branch = "extremum"
        /\ random_selection = DrawUnits => pe_branch = "random"

\* C3: a patch whose values are all equal is never returned.
C3_NoConstantPatchReturned ==
    pe_pc = "returned" => ~IsConstant(patch)

\* C4: a call on an input whose channel idx is constant ends in an error.
C4_ConstantChannelRaises ==
    (pe_pc # "ready" /\ ChannelIsConstant(data[idx])) => pe_pc = "raised"

-----------------------------------------------------------------------------
(* Floating-point pixel values of the calibration model, as records:      *)
(* NaN, +inf, a finite number v (an integer, in units that make every      *)
(* division below exact) and the largest finite value of float32/float64.  *)

NaN == [k |-> "nan", v |-> 0]
Inf == [k |-> "inf", v |-> 0]
Max32 == [k |-> "max32", v |-> 0]
Max64 == [k |-> "max64", v |-> 0]
Fin(v) == [k |-> "fin", v |-> v]

FloatValues == {NaN, Inf, Fin(0), Fin(64)}
IntValues == {Fin(0), Fin(64)}
Dtypes == {"int", "float32", "float64"}
ValuesOf(dtype) == IF dtype = "int" THEN IntValues ELSE FloatValues

\* a / b for a finite, non-negative divisor b (IEEE 754)
FDiv(a, b) ==
    IF a = NaN THEN NaN
    ELSE IF b = 0 THEN (IF a = Fin(0) THEN NaN ELSE Inf)
    ELSE IF a.k = "fin" THEN Fin(a.v \div b)
    ELSE a

\* np.nan_to_num on one element: NaN -> 0, inf -> the dtype's largest finite
NanToNum(a, dtype) ==
    IF a = NaN THEN Fin(0)
    ELSE IF a = Inf THEN (IF dtype = "float32" THEN Max32 ELSE Max64)
    ELSE a

\* .astype(np.float32) on one element: a float64 beyond float32's range
\* overflows to inf
Cast32(a) == IF a = Max64 THEN Inf ELSE a

\* the dtype of s_map.data / scalar, scalar a numpy.float64 from the table:
\* float64, except that legacy (NumPy 1.x) promotion keeps a float32 array
DivDtypes(dtype) == IF dtype = "float32" THEN {"float32", "float64"} ELSE {"float64"}

-----------------------------------------------------------------------------
(* The calibration tables and their lru_cache *)

NoObject == 0
NoScalar == -1
TableFns == {"auto", "local"}

\* f"{int(num):04}": the decimal digits of num, zero-padded to width 4
RECURSIVE Digits(_)
Digits(n) == IF n < 10 THEN <<n>> ELSE Digits(n \div 10) \o <<n % 10>>
RECURSIVE PadLeft(_, _)
PadLeft(d, width) == IF Len(d) >= width THEN d ELSE PadLeft(<<0>> \o d, width)
Format04(num) == PadLeft(Digits(num), 4)

Wavelengths == {94, 171}
\* the column names of the csv
Columns == {<<0, 0, 9, 4>>, <<0, 1, 7, 1>>, <<1, 7, 1>>, <<9, 4>>}
\* the correction factor of a date and a column
Factor(date, col) ==
    (IF date = 10 THEN 1 ELSE 2)
    * (IF col = <<0, 0, 9, 4>> THEN 4 ELSE IF col = <<0, 1, 7, 1>> THEN 1 ELSE 16)
Row(label, date) == [label |-> label, DATE |-> date, val |-> [c \in Columns |-> Factor(date, c)]]
\* the tables the server may hold: rows in either date order, the index
\* column (index_col=0) numbering the rows from 0, in reverse, or from 1
Tables ==
    { <<Row(0, 10), Row(1, 20)>>, <<Row(0, 20), Row(1, 10)>>,
      <<Row(1, 10), Row(0, 20)>>, <<Row(1, 10), Row(2, 20)>> }
ImageDates == {12, 18}

\* correction_table["DATE"].sub(date).abs().idxmin(): the index label of the
\* first row at minimal distance
IdxMin(table, date) ==
    LET dist(i) == Abs(table[i].DATE - date)
        best == CHOOSE i \in 1..Len(table) :
                    /\ \A j \in 1..Len(table) : dist(i) <= dist(j)
                    /\ \A j \in 1..(i - 1) : dist(j) > dist(i)
    IN  table[best].label

\* correction_table.iloc[index]: the row at position index (0-based; a
\* negative index counts from the end); ok is FALSE for an IndexError
ILoc(table, index) ==
    IF 0 <= index /\ index < Len(table)
    THEN [ok |-> TRUE, row |-> table[index + 1]]
    ELSE IF -Len(table) <= index /\ index < 0
    THEN [ok |-> TRUE, row |-> table[Len(table) + index + 1]]
    ELSE [ok |-> FALSE, row |-> table[1]]

\* one call of a cached table function by a single thread, start to end:
\* lru_cache returns the cached object, else runs the body and stores its
\* result.  The body of get_auto_calibration_table downloads the csv unless
\* its file exists and reads it; the body of get_local_correction_table reads
\* its file if it exists and else fetches the table and writes the file.
TableCall(fn) ==
    IF lru[fn] # NoObject
    THEN [obj |-> lru[fn], lru |-> lru, file_exists |-> file_exists,
          body_runs |-> body_runs, fetches |-> fetches, next_obj |-> next_obj]
    ELSE [obj |-> next_obj,
          lru |-> [lru EXCEPT ![fn] = next_obj],
          file_exists |-> [file_exists EXCEPT ![fn] = TRUE],
          body_runs |-> [body_runs EXCEPT ![fn] = @ + 1],
          fetches |-> [fetches EXCEPT ![fn] = IF file_exists[fn] THEN @ ELSE @ + 1],
          next_obj |-> next_obj + 1]

ApplyTableCall(fn) ==
    LET r == TableCall(fn)
    IN  /\ lru' = r.lru
        /\ file_exists' = r.file_exists
        /\ body_runs' = r.body_runs
        /\ fetches' = r.fetches
        /\ next_obj' = r.next_obj
        /\ lookups' = [lookups EXCEPT ![fn] = @ + 1]
        /\ returned' = [returned EXCEPT ![fn] = @ \cup {r.obj}]
        /\ UNCHANGED remote_csv

-----------------------------------------------------------------------------
(* correct_degregation *)

MaxPixels == 2
MaxCalls == 2

Methods == {"auto", "aiapy", "None", "none", "manual"}
\* the factors aiapy's degradation() may return for the image
AiapyFactors == {1, 2}

SeqsUpTo(S, n) == UNION {[1..k -> S] : k \in 1..n}

CdRaise(err, msg, sc) ==
    /\ cd_pc' = "raised"
    /\ cd_error' = err
    /\ cd_msg' = msg
    /\ cd_out' = <<>>
    /\ cd_scalar' = sc
    /\ cd_post' = FALSE

\* lines 121-124: nan_to_num, the in-place division by exptime, the cast
PostStep(d, dtype, sc) ==
    IF dtype = "int"
    THEN \* data /= exptime cannot store a float result in an integer array
         CdRaise("TypeError", {}, sc)
    ELSE /\ cd_pc' = "returned"
         /\ cd_error' = "none"
         /\ cd_msg' = {}
         /\ cd_out' = [i \in DOMAIN d |->
                          Cast32(FDiv(NanToNum(d[i], dtype), cd_meta.exptime))]
         /\ cd_scalar' = sc
         /\ cd_post' = TRUE

\* line 109: correction_table.iloc[index][f"{int(num):04}"]
TableEntry(table, date, num) ==
    LET index == IdxMin(table, date)
        at == ILoc(table, index)
    IN  IF at.ok THEN at.row.val[Format04(num)] ELSE NoScalar

\* a variant that also accepts the string "none"
RecognizedAlsoNoneString(method) == method \in {"auto", "aiapy", "None", "none"}

\* whether method is one of the values lines 103-115 accept
Recognized(method) == method \in {"auto", "aiapy", "None"}

correct_degregation ==
    /\ cd_pc = "ready"
    /\ cd_calls' = cd_calls + 1
    /\ UNCHANGED <<cd_method, cd_dtype, cd_data, cd_meta>>
    /\ IF ~Recognized(cd_method)
       THEN /\ CdRaise("ValueError", {"auto", "aiapy"}, NoScalar)
            /\ UNCHANGED tb_vars
       ELSE IF cd_method = "auto"
       THEN /\ ApplyTableCall("auto")
            /\ LET sc == TableEntry(remote_csv, cd_meta.date, cd_meta.wavelnth)
               IN  IF sc = NoScalar
                   THEN CdRaise("IndexError", {}, NoScalar)
                   ELSE \E dt \in DivDtypes(cd_dtype) :
                           PostStep([i \in DOMAIN cd_data |-> FDiv(cd_data[i], sc)], dt, sc)
       ELSE IF cd_method = "aiapy"
       THEN /\ ApplyTableCall("local")
            /\ \E f \in AiapyFactors :
                  PostStep([i \in DOMAIN cd_data |-> FDiv(cd_data[i], f)], "float64", NoScalar)
       ELSE \* method is None
            /\ UNCHANGED tb_vars
            /\ PostStep(cd_data, cd_dtype, NoScalar)

\* the caller calls again with the same arguments
CallAgain ==
    /\ cd_pc \in {"returned", "raised"}
    /\ cd_calls < MaxCalls
    /\ cd_pc' = "ready"
    /\ cd_error' = "none"
    /\ cd_msg' = {}
    /\ cd_out' = <<>>
    /\ cd_scalar' = NoScalar
    /\ cd_post' = FALSE
    /\ UNCHANGED <<cd_method, cd_dtype, cd_data, cd_meta, cd_calls>>
    /\ UNCHANGED tb_vars

CalibStart ==
    /\ cd_method \in Methods
    /\ cd_dtype \in Dtypes
    /\ cd_data \in SeqsUpTo(ValuesOf(cd_dtype), MaxPixels)
    /\ cd_meta \in [wavelnth : Wavelengths, exptime : {0, 2}, date : ImageDates]
    /\ cd_pc = "ready"
    /\ cd_error = "none"
    /\ cd_msg = {}
    /\ cd_out = <<>>
    /\ cd_scalar = NoScalar
    /\ cd_post = FALSE
    /\ cd_calls = 0

TablesStart ==
    /\ remote_csv \in Tables
    /\ file_exists \in [TableFns -> BOOLEAN]
    /\ lru = [fn \in TableFns |-> NoObject]
    /\ body_runs = [fn \in TableFns |-> 0]
    /\ fetches = [fn \in TableFns |-> 0]
    /\ lookups = [fn \in TableFns |-> 0]
    /\ next_obj = 1
    /\ returned = [fn \in TableFns |-> {}]

\* the parts of the state a specification does not exercise
PatchIdle ==
    /\ pe_kind = "Brightest"
    /\ data = Uniform(1, 1, 1, 0)
    /\ pe_unit = Two23
    /\ patch_shape = <<1, 1>>
    /\ idx = 0
    /\ random_selection = 0
    /\ pe_pc = "idle"
    /\ pe_u = -1
    /\ pe_branch = "none"
    /\ pe_pos = NoPos
    /\ pe_picked = NoPos
    /\ pe_rand = <<>>
    /\ patch = NoPatch
    /\ pe_error = "none"

CalibIdle ==
    /\ cd_method = "None"
    /\ cd_dtype = "float32"
    /\ cd_data = <<Fin(0)>>
    /\ cd_meta = [wavelnth |-> 171, exptime |-> 2, date |-> 12]
    /\ cd_pc = "idle"
    /\ cd_error = "none"
    /\ cd_msg = {}
    /\ cd_out = <<>>
    /\ cd_scalar = NoScalar
    /\ cd_post = FALSE
    /\ cd_calls = 0

TablesIdle ==
    /\ remote_csv = <<Row(0, 10), Row(1, 20)>>
    /\ file_exists = [fn \in TableFns |-> FALSE]
    /\ lru = [fn \in TableFns |-> NoObject]
    /\ body_runs = [fn \in TableFns |-> 0]
    /\ fetches = [fn \in TableFns |-> 0]
    /\ lookups = [fn \in TableFns |-> 0]
    /\ next_obj = 1
    /\ returned = [fn \in TableFns |-> {}]

-----------------------------------------------------------------------------
(* Threads of one process calling the lru_cache-wrapped table functions.   *)
(* functools.lru_cache looks the key up, calls the wrapped function on a   *)
(* miss without holding a lock, and stores the result afterwards; a thread *)
(* switch can occur between any two of the steps below (file and network   *)
(* I/O release the interpreter lock).                                      *)

NThreads == 2
MaxThreadCalls == 3
Threads == 1..NThreads

\* the wrapper's cache lookup: a hit returns, a miss enters the body
ThCall(t, fn) ==
    /\ th_pc[t] = "idle"
    /\ th_calls < MaxThreadCalls
    /\ th_calls' = th_calls + 1
    /\ lookups' = [lookups EXCEPT ![fn] = @ + 1]
    /\ th_fn' = [th_fn EXCEPT ![t] = fn]
    /\ IF lru[fn] # NoObject
       THEN /\ returned' = [returned EXCEPT ![fn] = @ \cup {lru[fn]}]
            /\ UNCHANGED <<th_pc, body_runs>>
       ELSE /\ th_pc' = [th_pc EXCEPT ![t] = "body"]
            /\ body_runs' = [body_runs EXCEPT ![fn] = @ + 1]
            /\ UNCHANGED returned
    /\ UNCHANGED <<remote_csv, file_exists, lru, fetches, next_obj, th_res>>

\* lines 54 and 72: os.path.exists(path)
ThExists(t) ==
    /\ th_pc[t] = "body"
    /\ th_pc' = [th_pc EXCEPT ![t] = IF file_exists[th_fn[t]] THEN "read" ELSE "fetch"]
    /\ UNCHANGED <<tb_vars, th_fn, th_res, th_calls>>

\* lines 55-56: request.urlretrieve into the file; line 75: the remote
\* get_correction_table()
ThFetch(t) ==
    /\ th_pc[t] = "fetch"
    /\ fetches' = [fetches EXCEPT ![th_fn[t]] = @ + 1]
    /\ IF th_fn[t] = "auto"
       THEN /\ file_exists' = [file_exists EXCEPT !["auto"] = TRUE]
            /\ th_pc' = [th_pc EXCEPT ![t] = "read"]
            /\ UNCHANGED <<th_res, next_obj>>
       ELSE /\ th_res' = [th_res EXCEPT ![t] = next_obj]
            /\ next_obj' = next_obj + 1
            /\ th_pc' = [th_pc EXCEPT ![t] = "write"]
            /\ UNCHANGED file_exists
    /\ UNCHANGED <<remote_csv, lru, body_runs, lookups, returned, th_fn, th_calls>>

\* line 76: astropy.io.ascii.write(correction_table, path)
ThWrite(t) ==
    /\ th_pc[t] = "write"
    /\ file_exists' = [file_exists EXCEPT ![th_fn[t]] = TRUE]
    /\ th_pc' = [th_pc EXCEPT ![t] = "store"]
    /\ UNCHANGED <<remote_csv, lru, body_runs, fetches, lookups, next_obj, returned,
                   th_fn, th_res, th_calls>>

\* line 57: pd.read_csv; line 73: get_correction_table(path)
ThRead(t) ==
    /\ th_pc[t] = "read"
    /\ th_res' = [th_res EXCEPT ![t] = next_obj]
    /\ next_obj' = next_obj + 1
    /\ th_pc' = [th_pc EXCEPT ![t] = "store"]
    /\ UNCHANGED <<remote_csv, file_exists, lru, body_runs, fetches, lookups, returned,
                   th_fn, th_calls>>

\* the wrapper stores the body's result under the key and returns it
ThStore(t) ==
    /\ th_pc[t] = "store"
    /\ lru' = [lru EXCEPT ![th_fn[t]] = th_res[t]]
    /\ returned' = [returned EXCEPT ![th_fn[t]] = @ \cup {th_res[t]}]
    /\ th_pc' = [th_pc EXCEPT ![t] = "idle"]
    /\ UNCHANGED <<remote_csv, file_exists, body_runs, fetches, lookups, next_obj,
                   th_fn, th_res, th_calls>>

ThreadsStart ==
    /\ th_pc = [t \in Threads |-> "idle"]
    /\ th_fn = [t \in Threads |-> "auto"]
    /\ th_res = [t \in Threads |-> NoObject]
    /\ th_calls = 0

ThreadsIdle == ThreadsStart

-----------------------------------------------------------------------------
(* The crop of normalize_radius: two successive sunpy submap calls *)

MaxRotated == 5
MaxResolution == 3
NoCrop == [bottom |-> 0, top |-> 0, left |-> 0, right |-> 0]

Clip(v, lo, hi) == Max2(lo, Min2(v, hi))

\* GenericMap.submap on a map of shape <<rows, cols>>: the corner pixels
\* (x0, y0), (x1, y1), already rounded to integers, give the array slice
\* [bottom:top, left:right] with top and right one past the corner, clipped
\* to the array
Submap(shape, x0, y0, x1, y1) ==
    [bottom |-> Clip(y0, 0, shape[1]), top |-> Clip(y1 + 1, 0, shape[1]),
     left |-> Clip(x0, 0, shape[2]), right |-> Clip(x1 + 1, 0, shape[2])]

CropShape(c) == <<c.top - c.bottom, c.right - c.left>>

\* The first crop asks for the box of resolution / 2 pixels around the
\* centre of the recentred map, (n - 1) / 2 on an axis of n pixels.  Its
\* corners n/2 - 1/2 -+ resolution/2 are rounded by floor(x + 0.5); where
\* that is an exact integer in real arithmetic (n - resolution even) the
\* floating-point coordinate may fall on either side of it.
LowCorners(n, res) ==
    IF (n - res) % 2 = 0 THEN {(n - res) \div 2 - 1, (n - res) \div 2}
    ELSE {(n - res - 1) \div 2}
HighCorners(n, res) ==
    IF (n - res) % 2 = 0 THEN {(n + res) \div 2 - 1, (n + res) \div 2}
    ELSE {(n + res - 1) \div 2}

\* scale.py lines 117-123, editors.py lines 342-344
FirstCrops(shape, res) ==
    {Submap(shape, x0, y0, x1, y1) :
        x0 \in LowCorners(shape[2], res), y0 \in LowCorners(shape[1], res),
        x1 \in HighCorners(shape[2], res), y1 \in HighCorners(shape[1], res)}

\* a // b of Python for b > 0
FloorDiv(a, b) == a \div b

\* scale.py lines 122-125, editors.py lines 345-348: pad_x comes from
\* shape[0], the number of rows, and is used as the x (column) corner
SecondCrop(shape, res) ==
    LET pad_x == shape[1] - res
        pad_y == shape[2] - res
    IN  Submap(shape, FloorDiv(pad_x, 2), FloorDiv(pad_y, 2),
               FloorDiv(pad_x, 2) + res - 1, FloorDiv(pad_y, 2) + res - 1)

CropBody ==
    /\ cr_pc = "ready"
    /\ \E c \in FirstCrops(cr_rotated, cr_resolution) :
          /\ cr_first' = c
          /\ cr_second' = SecondCrop(CropShape(c), cr_resolution)
    /\ cr_pc' = "returned"
    /\ UNCHANGED <<cr_caller, cr_resolution, cr_rotated>>

_crop_resolution == cr_caller = "_crop_resolution" /\ CropBody
NormalizeRadiusEditor_call == cr_caller = "NormalizeRadiusEditor" /\ CropBody

CropStart ==
    /\ cr_caller \in {"_crop_resolution", "NormalizeRadiusEditor"}
    /\ cr_resolution \in 1..MaxResolution
    /\ cr_rotated \in (1..MaxRotated) \X (1..MaxRotated)
    /\ cr_first = NoCrop
    /\ cr_second = NoCrop
    /\ cr_pc = "ready"

CropIdle ==
    /\ cr_caller = "_crop_resolution"
    /\ cr_resolution = 1
    /\ cr_rotated = <<1, 1>>
    /\ cr_first = NoCrop
    /\ cr_second = NoCrop
    /\ cr_pc = "idle"

-----------------------------------------------------------------------------
(* Editor.convert and a runner that chains it:                             *)
(*     data, kwargs = editor.convert(data, **kwargs)                       *)

MaxStages == 3
Paths == {1, 2}
Keys == {"path", "obs"}

\* data values: the file a value came from and the editors applied to it
Val(src, edits) == [src |-> src, edits |-> edits]
EmptyMap == <<>>
\* the mappings a caller may start the chain with
Mappings ==
    {EmptyMap, [k \in {"path"} |-> Val(1, <<>>)], [k \in Keys |-> Val(2, <<>>)]}
\* the additions a stage may return
Additions ==
    {EmptyMap} \cup {[k \in {"path"} |-> Val(p, <<>>)] : p \in Paths}
               \cup {[k \in {"obs"} |-> Val(1, <<>>)]}

\* a variant of dict.update in which the key already present wins
UpdateKeepsOld(kwargs, add_kwargs) ==
    [k \in DOMAIN kwargs \cup DOMAIN add_kwargs |->
        IF k \in DOMAIN kwargs THEN kwargs[k] ELSE add_kwargs[k]]

\* line 30: kwargs.update(add_kwargs)
Update(kwargs, add_kwargs) ==
    [k \in DOMAIN kwargs \cup DOMAIN add_kwargs |->
        IF k \in DOMAIN add_kwargs THEN add_kwargs[k] ELSE kwargs[k]]

\* warnings.simplefilter("ignore"): the entry goes to the front of
\* warnings.filters, an equal entry further back is removed
SimpleFilterIgnore(filters) == <<"ignore">> \o SelectSeq(filters, LAMBDA f : f # "ignore")

\* the filters after the call of an editor class: catch_warnings() restores
\* the list on exit, a bare simplefilter stays
FiltersAfter(kind, filters) ==
    IF kind \in {"NormalizeExposureEditor", "NormalizeRadiusEditor"}
    THEN SimpleFilterIgnore(filters)
    ELSE filters

\* lines 26-33: convert passes a fresh dict (**kwargs) to call, merges the
\* additions of a tuple result into it and returns it; result is
\* [tuple, data, add]
convert(kind, result) ==
    /\ ch_pc = "run"
    /\ Len(ch_seen) < MaxStages
    /\ LET kwargs == ch_kwargs
       IN  /\ ch_seen' = Append(ch_seen, kwargs)
           /\ ch_kinds' = Append(ch_kinds, kind)
           /\ ch_tupled' = Append(ch_tupled, result.tuple)
           /\ ch_adds' = Append(ch_adds, IF result.tuple THEN result.add ELSE EmptyMap)
           /\ ch_data' = result.data
           /\ ch_kwargs' = IF result.tuple THEN Update(kwargs, result.add) ELSE kwargs
           /\ ch_arg' = kwargs
    /\ warn_before' = warn_filters
    /\ warn_filters' = FiltersAfter(kind, warn_filters)
    /\ ed_before' = ed_fields
    /\ UNCHANGED <<ch_pc, ch_init, ed_fields>>

Edited(kind) == Val(ch_data.src, Append(ch_data.edits, kind))

\* lines 198-203
LoadMapEditor_call ==
    convert("LoadMapEditor",
            [tuple |-> TRUE, data |-> Edited("LoadMapEditor"), add |-> [k \in {"path"} |-> ch_data]])

\* lines 228-233
NormalizeExposureEditor_call ==
    convert("NormalizeExposureEditor",
            [tuple |-> FALSE, data |-> Edited("NormalizeExposureEditor"), add |-> EmptyMap])

\* lines 333-350
NormalizeRadiusEditor_convert ==
    convert("NormalizeRadiusEditor",
            [tuple |-> FALSE, data |-> Edited("NormalizeRadiusEditor"), add |-> EmptyMap])

\* lines 258-266
ScaleEditor_call ==
    convert("ScaleEditor", [tuple |-> FALSE, data |-> Edited("ScaleEditor"), add |-> EmptyMap])

\* lines 35-37: a subclass whose call returns data and additions of its own
SubclassEditor_call ==
    \E add \in Additions :
        convert("Subclass", [tuple |-> TRUE, data |-> Edited("Subclass"), add |-> add])

FilterLists == {<<"ignore", "default">>, <<"error", "ignore">>}

ChainStart ==
    /\ ch_pc = "run"
    /\ ch_data \in {Val(p, <<>>) : p \in Paths}
    /\ ch_init \in Mappings
    /\ ch_kwargs = ch_init
    /\ ch_arg = ch_init
    /\ ch_seen = <<>>
    /\ ch_adds = <<>>
    /\ ch_tupled = <<>>
    /\ ch_kinds = <<>>
    /\ ed_fields = [target |-> 1, resolution |-> 2, crop |-> TRUE, arcspp |-> 1]
    /\ ed_before = ed_fields
    /\ warn_filters \in FilterLists
    /\ warn_before = warn_filters

ChainIdle ==
    /\ ch_pc = "idle"
    /\ ch_data = Val(1, <<>>)
    /\ ch_init = EmptyMap
    /\ ch_kwargs = EmptyMap
    /\ ch_arg = EmptyMap
    /\ ch_seen = <<>>
    /\ ch_adds = <<>>
    /\ ch_tupled = <<>>
    /\ ch_kinds = <<>>
    /\ ed_fields = [target |-> 1, resolution |-> 2, crop |-> TRUE, arcspp |-> 1]
    /\ ed_before = ed_fields
    /\ warn_filters = <<"default">>
    /\ warn_before = <<"default">>

-----------------------------------------------------------------------------
(* MinMaxQuantileNormalizeEditor and WhiteningEditor.  Input elements are  *)
(* NaN or small integers; results are exact fractions v / d.               *)

MaxNormLen == 3
NormValues == {NaN, Fin(0), Fin(1), Fin(3)}
Frac(v, d) == [k |-> "fin", v |-> v, d |-> d]
FracNaN == [k |-> "nan", v |-> 0, d |-> 1]
PlusInf == [k |-> "inf", v |-> 1, d |-> 1]
MinusInf == [k |-> "inf", v |-> -1, d |-> 1]

HasNaN(a) == \E i \in DOMAIN a : a[i] = NaN

\* the values of a sequence of finite elements in ascending order
RECURSIVE SortedValues(_)
SortedValues(a) ==
    IF a = <<>> THEN <<>>
    ELSE LET i == CHOOSE i \in DOMAIN a : \A j \in DOMAIN a : a[i].v <= a[j].v
             rest == [j \in 1..(Len(a) - 1) |-> IF j < i THEN a[j] ELSE a[j + 1]]
         IN  <<a[i].v>> \o SortedValues(rest)

\* np.quantile(data, q) for q = q1000 / 1000 (method 'linear'), times 1000:
\* the element at the virtual index q * (n - 1) of the sorted data,
\* interpolated between its neighbours
Quantile1000(a, q1000) ==
    LET srt == SortedValues(a)
        pos == q1000 * (Len(a) - 1)
        lo == pos \div 1000
        fr == pos % 1000
    IN  IF fr = 0 THEN 1000 * srt[lo + 1]
        ELSE 1000 * srt[lo + 1] + fr * (srt[lo + 2] - srt[lo + 1])

\* np.clip(x, -1, 1) on one element; NaN stays NaN
Clip1(x) ==
    IF x.k = "nan" THEN x
    ELSE IF x.k = "inf" THEN Frac(x.v, 1)
    ELSE IF x.v > x.d THEN Frac(x.d, x.d)
    ELSE IF x.v < -x.d THEN Frac(-x.d, x.d)
    ELSE x

\* num / den * 2 - 1 in IEEE arithmetic, den >= 0
Rescale(num, den) ==
    IF den = 0 THEN (IF num = 0 THEN FracNaN ELSE IF num > 0 THEN PlusInf ELSE MinusInf)
    ELSE Frac(2 * num - den, den)

\* lines 54-58; a NaN element makes both quantiles NaN
MinMaxQuantileNormalize(a) ==
    IF HasNaN(a) THEN [i \in DOMAIN a |-> FracNaN]
    ELSE LET vmin == Quantile1000(a, 1)
             vmax == Quantile1000(a, 999)
         IN  [i \in DOMAIN a |-> Clip1(Rescale(1000 * a[i].v - vmin, vmax - vmin))]

RECURSIVE SumV(_)
SumV(a) == IF a = <<>> THEN 0 ELSE Head(a).v + SumV(Tail(a))
RECURSIVE SumSq(_)
SumSq(a) == IF a = <<>> THEN 0 ELSE Head(a).v * Head(a).v + SumSq(Tail(a))

\* lines 82-85.  With n the number of non-NaN elements and S their sum,
\* data - nanmean is (n * x - S) / n, and nanstd is sqrt(V) / n for
\* V = n * sum(x^2) - S^2.  The result keeps the numerators n * x - S over n
\* and the divisor data_std + 1e-6 as the pair [V, n].
NoDivisor == [V |-> 0, n |-> 0]
Whiten(a) ==
    LET fin == SelectSeq(a, LAMBDA x : x # NaN)
        n == Len(fin)
        S == SumV(fin)
        Q == SumSq(fin)
    IN  IF n = 0 THEN [out |-> [i \in DOMAIN a |-> FracNaN], div |-> NoDivisor]
        ELSE [out |-> [i \in DOMAIN a |->
                          IF a[i] = NaN THEN FracNaN ELSE Frac(n * a[i].v - S, n)],
              div |-> [V |-> n * Q - S * S, n |-> n]]

MinMaxQuantileNormalizeEditor_call ==
    /\ nm_pc = "ready"
    /\ nm_editor = "MinMaxQuantileNormalizeEditor"
    /\ nm_out' = MinMaxQuantileNormalize(nm_in)
    /\ nm_div' = NoDivisor
    /\ nm_pc' = "returned"
    /\ UNCHANGED <<nm_editor, nm_in>>

WhiteningEditor_call ==
    /\ nm_pc = "ready"
    /\ nm_editor = "WhiteningEditor"
    /\ nm_out' = Whiten(nm_in).out
    /\ nm_div' = Whiten(nm_in).div
    /\ nm_pc' = "returned"
    /\ UNCHANGED <<nm_editor, nm_in>>

NormStart ==
    /\ nm_editor \in {"MinMaxQuantileNormalizeEditor", "WhiteningEditor"}
    /\ nm_in \in SeqsUpTo(NormValues, MaxNormLen)
    /\ nm_out = <<>>
    /\ nm_div = NoDivisor
    /\ nm_pc = "ready"

NormIdle ==
    /\ nm_editor = "WhiteningEditor"
    /\ nm_in = <<>>
    /\ nm_out = <<>>
    /\ nm_div = NoDivisor
    /\ nm_pc = "idle"

-----------------------------------------------------------------------------
(* SDODownloader: downloadDate, fetchDataFallback and download for one     *)
(* date.  A record is [wl, q, dist]: its WAVELNTH, its QUALITY and the     *)
(* distance of its DATE__OBS from the requested date.                      *)

MaxDownloadCalls == 2
\* the distances a record of a widened query may have from the date
Dists == {1, 2}
Hmi == 6173
wavelengths == <<171, 193>>
Rec(wl, q, dist) == [wl |-> wl, q |-> q, dist |-> dist]
Sample(rec, src) == [wl |-> rec.wl, q |-> rec.q, dist |-> rec.dist, src |-> src]

\* what the direct queries may return
HmiResults ==
    {<<>>, <<Rec(Hmi, 0, 0)>>, <<Rec(Hmi, 1, 0)>>, <<Rec(Hmi, 0, 0), Rec(Hmi, 0, 0)>>}
EuvResults ==
    {<<>>, <<Rec(171, 0, 0)>>, <<Rec(171, 0, 0), Rec(193, 0, 0)>>,
     <<Rec(171, 0, 0), Rec(193, 1, 0)>>, <<Rec(171, 0, 0), Rec(171, 0, 0)>>,
     <<Rec(171, 0, 0), Rec(193, 0, 0), Rec(193, 0, 0)>>}
\* what a widened query may return: up to two records at different
\* distances, in either order
WideResults(wl) ==
    {<<>>} \cup {<<Rec(wl, q, d)>> : q \in {0, 1}, d \in Dists}
           \cup UNION {{<<Rec(wl, q1, d1), Rec(wl, q2, d2)>> :
                            q1 \in {0, 1}, q2 \in {0, 1}, d2 \in (Dists) \ {d1}} :
                        d1 \in Dists}

\* a variant of the test of line 75 that does not look at QUALITY
HmiUnusableByCount(header_hmi) == Len(header_hmi) # 1

\* line 75: len(header_hmi) != 1 or np.any(header_hmi.QUALITY != 0)
HmiUnusable(header_hmi) ==
    Len(header_hmi) # 1 \/ \E i \in DOMAIN header_hmi : header_hmi[i].q # 0

\* line 88
EuvUnusable(header_euv) ==
    Len(header_euv) # Len(wavelengths) \/ \E i \in DOMAIN header_euv : header_euv[i].q # 0

\* lines 144-160, 174-190: sort_values returns a sorted copy that is dropped,
\* so the frame keeps the order of the query; the QUALITY filter keeps that
\* order as well and iloc[0] takes its first row
FilterQuality(header_tmp) == SelectSeq(header_tmp, LAMBDA r : r.q = 0)
FallbackFails(header_tmp) == Len(header_tmp) = 0 \/ Len(FilterQuality(header_tmp)) = 0
FallbackPick(header_tmp) == FilterQuality(header_tmp)[1]
LeastDist(header_tmp) ==
    LET ok == FilterQuality(header_tmp)
    IN  CHOOSE d \in {ok[i].dist : i \in DOMAIN ok} : \A i \in DOMAIN ok : d <= ok[i].dist

NoWide == [w \in {Hmi, 171, 193} |-> 0]

\* lines 63-77: the direct HMI query
downloadDate ==
    /\ sd_pc = "idle"
    /\ sd_calls < MaxDownloadCalls
    /\ sd_calls' = sd_calls + 1
    /\ \E header_hmi \in HmiResults :
          /\ sd_hmi' = header_hmi
          /\ IF HmiUnusable(header_hmi)
             THEN sd_pc' = "fb_hmi" /\ sd_fb_runs' = 1
             ELSE sd_pc' = "dd_euv" /\ sd_fb_runs' = 0
    /\ sd_euv' = <<>>
    /\ sd_euv_queried' = FALSE
    /\ sd_tmp' = <<>>
    /\ sd_wl' = 1
    /\ sd_wide' = NoWide
    /\ sd_picked' = <<>>
    /\ sd_nearest' = <<>>
    /\ sd_queue' = <<>>
    /\ sd_item' = 1
    /\ sd_error' = "none"
    /\ UNCHANGED sd_files

\* lines 79-96: the direct EUV query and the queue of its records
downloadDateEUV ==
    /\ sd_pc = "dd_euv"
    /\ \E header_euv \in EuvResults :
          /\ sd_euv' = header_euv
          /\ sd_euv_queried' = TRUE
          /\ IF EuvUnusable(header_euv)
             THEN /\ sd_pc' = "fb_hmi"
                  /\ sd_fb_runs' = sd_fb_runs + 1
                  /\ UNCHANGED sd_queue
             ELSE /\ sd_pc' = "pool"
                  /\ sd_queue' = [i \in 1..(Len(sd_hmi) + Len(header_euv)) |->
                                     IF i <= Len(sd_hmi) THEN Sample(sd_hmi[i], "direct")
                                     ELSE Sample(header_euv[i - Len(sd_hmi)], "direct")]
                  /\ UNCHANGED sd_fb_runs
    /\ UNCHANGED <<sd_calls, sd_hmi, sd_tmp, sd_wl, sd_wide, sd_picked, sd_nearest, sd_item,
                   sd_files, sd_error>>

\* one widened query of fetchDataFallback and the choice of its record; a
\* failed assert ends the downloadDate call
FallbackQuery(wl, next_pc) ==
    \E header_tmp \in WideResults(wl) :
        /\ sd_tmp' = header_tmp
        /\ sd_wide' = [sd_wide EXCEPT ![wl] = @ + 1]
        /\ IF FallbackFails(header_tmp)
           THEN /\ sd_pc' = "idle"
                /\ sd_error' = "AssertionError"
                /\ UNCHANGED <<sd_picked, sd_nearest>>
           ELSE /\ sd_pc' = next_pc
                /\ sd_picked' = Append(sd_picked, FallbackPick(header_tmp))
                /\ sd_nearest' = Append(sd_nearest, LeastDist(header_tmp))
                /\ UNCHANGED sd_error

\* lines 131-160
fetchDataFallback ==
    /\ sd_pc = "fb_hmi"
    /\ FallbackQuery(Hmi, "fb_euv")
    /\ UNCHANGED <<sd_calls, sd_hmi, sd_euv, sd_euv_queried, sd_fb_runs, sd_wl, sd_queue,
                   sd_item, sd_files>>

\* lines 163-195: one turn of the loop over self.wavelengths; after the last
\* one the chosen records are queued
fetchDataFallbackEUV ==
    /\ sd_pc = "fb_euv"
    /\ sd_wl <= Len(wavelengths)
    /\ FallbackQuery(wavelengths[sd_wl], IF sd_wl = Len(wavelengths) THEN "pool" ELSE "fb_euv")
    /\ sd_wl' = sd_wl + 1
    /\ sd_queue' = IF sd_pc' = "pool"
                   THEN [i \in DOMAIN sd_picked' |-> Sample(sd_picked'[i], "fallback")]
                   ELSE sd_queue
    /\ UNCHANGED <<sd_calls, sd_hmi, sd_euv, sd_euv_queried, sd_fb_runs, sd_item, sd_files>>

\* lines 102-129, for the next sample of the queue: an existing file is
\* returned as it is; else urlretrieve writes the file and the header keys
\* are written into it, and either step may raise
download ==
    /\ sd_pc = "pool"
    /\ sd_item <= Len(sd_queue)
    /\ LET map_path == sd_queue[sd_item].wl
       IN  IF sd_files[map_path] # "absent"
           THEN UNCHANGED <<sd_files, sd_error>>
           ELSE \E outcome \in {"ok", "no connection", "retrieve fails", "update fails"} :
                   /\ sd_files' = [sd_files EXCEPT ![map_path] =
                                      CASE outcome = "ok" -> "ready"
                                        [] outcome = "no connection" -> "absent"
                                        [] OTHER -> "raw"]
                   /\ sd_error' = IF outcome = "ok" THEN sd_error ELSE "download"
    /\ sd_item' = sd_item + 1
    /\ UNCHANGED <<sd_pc, sd_calls, sd_hmi, sd_euv, sd_euv_queried, sd_fb_runs, sd_tmp, sd_wl,
                   sd_wide, sd_picked, sd_nearest, sd_queue>>

\* lines 98-100, 197-200: p.map has run every sample
poolDone ==
    /\ sd_pc = "pool"
    /\ sd_item > Len(sd_queue)
    /\ sd_pc' = "idle"
    /\ UNCHANGED <<sd_calls, sd_hmi, sd_euv, sd_euv_queried, sd_fb_runs, sd_tmp, sd_wl,
                   sd_wide, sd_picked, sd_nearest, sd_queue, sd_item, sd_files, sd_error>>

SdoStart ==
    /\ sd_pc = "idle"
    /\ sd_calls = 0
    /\ sd_hmi = <<>>
    /\ sd_euv = <<>>
    /\ sd_euv_queried = FALSE
    /\ sd_fb_runs = 0
    /\ sd_tmp = <<>>
    /\ sd_wl = 1
    /\ sd_wide = NoWide
    /\ sd_picked = <<>>
    /\ sd_nearest = <<>>
    /\ sd_queue = <<>>
    /\ sd_item = 1
    /\ sd_files \in [{Hmi, 171, 193} -> {"absent", "ready"}]
    /\ sd_error = "none"

SdoIdle ==
    /\ sd_pc = "off"
    /\ sd_calls = 0
    /\ sd_hmi = <<>>
    /\ sd_euv = <<>>
    /\ sd_euv_queried = FALSE
    /\ sd_fb_runs = 0
    /\ sd_tmp = <<>>
    /\ sd_wl = 1
    /\ sd_wide = NoWide
    /\ sd_picked = <<>>
    /\ sd_nearest = <<>>
    /\ sd_queue = <<>>
    /\ sd_item = 1
    /\ sd_files = [w \in {Hmi, 171, 193} |-> "absent"]
    /\ sd_error = "none"

-----------------------------------------------------------------------------
(* SOLODownloader: downloadDate, downloadFSI and downloadHRI for one date. *)
(* A search entry is [dist, kind]: the distance of its start time from the *)
(* query date and what fetching it gives: "good" (one file with CDELT1     *)
(* 4.44012445), "cdelt" (one file with another CDELT1) or "multi" (not     *)
(* exactly one file).                                                      *)

MaxSoloCalls == 3
\* self.wavelengths[1::]
FsiProducts == <<"eui-fsi174-image", "eui-fsi304-image">>
EntryKinds == {"good", "cdelt", "multi"}
Entry(dist, kind) == [dist |-> dist, kind |-> kind]

\* what Fido.search may return, in any order
SearchResults ==
    {<<>>} \cup {<<Entry(d, k)>> : d \in Dists, k \in EntryKinds}
           \cup UNION {{<<Entry(d1, k1), Entry(d2, k2)>> :
                            k1 \in EntryKinds, k2 \in EntryKinds, d2 \in Dists \ {d1}} :
                        d1 \in Dists}

\* a variant that keeps the order in which the search listed its entries
SortKeepsOrder(search) == search

\* lines 119-124: sorted(search, key=distance to the query date)
RECURSIVE SortByDist(_)
SortByDist(search) ==
    IF search = <<>> THEN <<>>
    ELSE LET i == CHOOSE i \in DOMAIN search :
                     /\ \A j \in DOMAIN search : search[i].dist <= search[j].dist
                     /\ \A j \in 1..(i - 1) : search[j].dist > search[i].dist
             rest == [j \in 1..(Len(search) - 1) |->
                         IF j < i THEN search[j] ELSE search[j + 1]]
         IN  <<search[i]>> \o SortByDist(rest)

\* lines 126-143: the first entry that fetches as one file with the right
\* CDELT1 is moved to the target path; without one the call raises
FsiStores(search) == \E i \in DOMAIN search : search[i].kind = "good"

\* lines 107-143, for the search result found: the entries fetched, the
\* fetched files removed again, the entry moved to the target path and the
\* exception raised
NoEntry == Entry(0, "none")
NoFsi == [found |-> <<>>, tried |-> <<>>, deleted |-> <<>>, stored |-> NoEntry,
          raise |-> "none"]
RECURSIVE FsiLoop(_, _, _, _)
FsiLoop(search, i, tried, deleted) ==
    IF i > Len(search)
    THEN \* lines 141-143
         [tried |-> tried, deleted |-> deleted, stored |-> NoEntry, raise |-> "Exception"]
    ELSE LET entry == search[i]
         IN  IF entry.kind = "multi"
             THEN \* lines 128-129
                  FsiLoop(search, i + 1, Append(tried, entry), deleted)
             ELSE IF entry.kind = "cdelt"
             THEN \* lines 134-136
                  FsiLoop(search, i + 1, Append(tried, entry), Append(deleted, entry))
             ELSE \* lines 138-139
                  [tried |-> Append(tried, entry), deleted |-> deleted, stored |-> entry,
                   raise |-> "none"]
FsiRun(found) ==
    IF Len(found) = 0
    THEN \* line 115
         [found |-> found, tried |-> <<>>, deleted |-> <<>>, stored |-> NoEntry,
          raise |-> "AssertionError"]
    ELSE LET run == FsiLoop(SortByDist(found), 1, <<>>, <<>>)
         IN  [found |-> found, tried |-> run.tried, deleted |-> run.deleted,
              stored |-> run.stored, raise |-> run.raise]

\* a variant of the handler that leaves the collected files in place
CleanupNothing(exists, files) == exists

\* line 81: [os.remove(f) for f in files if os.path.exists(f)]
Cleanup(exists, files) ==
    [p \in DOMAIN exists |->
        exists[p] /\ ~(\E i \in DOMAIN files : files[i] = p)]

\* lines 79-81: the handler logs the error, removes the collected files
\* and lets downloadDate return
SoloExcept(search) ==
    /\ so_files' = Cleanup(so_files, so_collected)
    /\ so_pc' = "idle"
    /\ so_result' = "logged"
    /\ so_search' = search
    /\ UNCHANGED <<so_calls, so_hri, so_i, so_before, so_collected, so_created>>

\* lines 68-69: a call starts
soloDownloadDate ==
    /\ so_pc = "idle"
    /\ so_calls < MaxSoloCalls
    /\ so_calls' = so_calls + 1
    /\ so_hri' \in BOOLEAN
    /\ so_i' = 1
    /\ so_before' = so_files
    /\ so_collected' = <<>>
    /\ so_created' = {}
    /\ so_search' = <<>>
    /\ so_fsi' = NoFsi
    /\ so_result' = "none"
    /\ so_pc' = "fsi"
    /\ UNCHANGED so_files

\* line 78 or the start of the HRI loop, once the FSI loop is over
AfterFsi(last) ==
    IF ~last THEN so_pc' = "fsi" /\ so_result' = "none"
    ELSE IF so_hri THEN so_pc' = "hri" /\ so_result' = "none"
    ELSE so_pc' = "idle" /\ so_result' = "complete"

\* lines 71-72 with downloadFSI (lines 99-143) for the next product
downloadFSI ==
    /\ so_pc = "fsi"
    /\ so_i <= Len(FsiProducts)
    /\ LET wl == FsiProducts[so_i]
           last == so_i = Len(FsiProducts)
       IN  IF so_files[wl]
           THEN \* lines 104-105
                /\ so_collected' = Append(so_collected, wl)
                /\ so_i' = so_i + 1
                /\ AfterFsi(last)
                /\ so_fsi' = NoFsi
                /\ UNCHANGED <<so_calls, so_hri, so_files, so_before, so_created, so_search>>
           ELSE \E found \in SearchResults :
                   LET search == SortByDist(found)
                   IN  /\ so_fsi' = FsiRun(found)
                       /\ IF FsiStores(search)
                          THEN /\ so_files' = [so_files EXCEPT ![wl] = TRUE]
                               /\ so_collected' = Append(so_collected, wl)
                               /\ so_created' = so_created \cup {wl}
                               /\ so_search' = search
                               /\ so_i' = so_i + 1
                               /\ AfterFsi(last)
                               /\ UNCHANGED <<so_calls, so_hri, so_before>>
                          ELSE SoloExcept(search)

\* lines 75-77 with downloadHRI (lines 149-187): the loop runs over the
\* characters of the string self.wavelengths[0]; for the first one the
\* search finds no product or there is no directory to move the file to,
\* and downloadHRI raises
downloadHRI ==
    /\ so_pc = "hri"
    /\ SoloExcept(so_search)
    /\ UNCHANGED so_fsi

SoloStart ==
    /\ so_pc = "idle"
    /\ so_calls = 0
    /\ so_hri = FALSE
    /\ so_i = 1
    /\ so_files = [p \in {FsiProducts[i] : i \in DOMAIN FsiProducts} |-> FALSE]
    /\ so_before = so_files
    /\ so_collected = <<>>
    /\ so_created = {}
    /\ so_search = <<>>
    /\ so_fsi = NoFsi
    /\ so_result = "none"

SoloIdle ==
    /\ so_pc = "off"
    /\ so_calls = 0
    /\ so_hri = FALSE
    /\ so_i = 1
    /\ so_files = [p \in {FsiProducts[i] : i \in DOMAIN FsiProducts} |-> FALSE]
    /\ so_before = so_files
    /\ so_collected = <<>>
    /\ so_created = {}
    /\ so_search = <<>>
    /\ so_fsi = NoFsi
    /\ so_result = "none"

-----------------------------------------------------------------------------
(* Claims about correct_degregation *)

CdFinished == cd_pc \in {"returned", "raised"}
TablesUntouched ==
    \A fn \in TableFns : lookups[fn] = 0 /\ body_runs[fn] = 0 /\ fetches[fn] = 0

\* C5: a method other than "auto", "aiapy" and None ends in a ValueError whose
\* message names 'auto' and 'aiapy'; no table function is called, nothing is
\* fetched, no Map is returned and the exposure post-step does not run.
C5_UnrecognizedMethodRaises ==
    (CdFinished /\ cd_method \notin {"auto", "aiapy", "None"}) =>
        /\ cd_pc = "raised"
        /\ cd_error = "ValueError"
        /\ cd_msg = {"auto", "aiapy"}
        /\ cd_out = <<>>
        /\ ~cd_post
        /\ TablesUntouched

C5_Witness ==
    /\ cd_pc = "raised"
    /\ cd_method = "none"
    /\ cd_error = "ValueError"
    /\ cd_calls = 2

\* C6: with method None the call succeeds, calls no table function and
\* returns the input with NaN replaced by 0, divided by exptime (as float32).
C6_NoneModeDividesByExposure ==
    (CdFinished /\ cd_method = "None") =>
        /\ cd_pc = "returned"
        /\ cd_out = [i \in DOMAIN cd_data |->
                        Cast32(FDiv(IF cd_data[i] = NaN THEN Fin(0) ELSE cd_data[i],
                                    cd_meta.exptime))]
        /\ cd_scalar = NoScalar
        /\ TablesUntouched

\* the row of the table whose DATE is nearest to date
NearestRow(table, date) ==
    CHOOSE i \in 1..Len(table) :
        \A j \in 1..Len(table) : Abs(table[i].DATE - date) <= Abs(table[j].DATE - date)

\* C7: in mode "auto" the scalar dividing the data is the entry of the row
\* with the nearest DATE, in the column of the 4-digit wavelength.
C7_AutoUsesNearestDateRow ==
    (CdFinished /\ cd_method = "auto") =>
        cd_scalar = remote_csv[NearestRow(remote_csv, cd_meta.date)].val[
                        IF cd_meta.wavelnth = 171 THEN <<0, 1, 7, 1>> ELSE <<0, 0, 9, 4>>]

\* C8: the returned array contains no NaN.
C8_NoNaNReturned ==
    cd_pc = "returned" => \A i \in DOMAIN cd_out : cd_out[i] # NaN

-----------------------------------------------------------------------------
(* Specifications *)

PatchInit == PatchStart /\ CalibIdle /\ TablesIdle /\ ThreadsIdle /\ CropIdle /\ ChainIdle /\ NormIdle /\ SdoIdle /\ SoloIdle
PatchNext ==
    \/ BrightestCall /\ UNCHANGED NotPatch
    \/ DarkestCall /\ UNCHANGED NotPatch
SpecPatch == PatchInit /\ [][PatchNext]_vars

CalibInit == PatchIdle /\ CalibStart /\ TablesStart /\ ThreadsIdle /\ CropIdle /\ ChainIdle /\ NormIdle /\ SdoIdle /\ SoloIdle
CalibNext ==
    \/ correct_degregation /\ UNCHANGED NotCalib
    \/ CallAgain /\ UNCHANGED NotCalib
SpecCalib == CalibInit /\ [][CalibNext]_vars

CacheInit == PatchIdle /\ CalibIdle /\ TablesStart /\ ThreadsStart /\ CropIdle /\ ChainIdle /\ NormIdle /\ SdoIdle /\ SoloIdle
CacheNext ==
    \E t \in Threads :
        \/ \E fn \in TableFns : ThCall(t, fn) /\ UNCHANGED NotCache
        \/ ThExists(t) /\ UNCHANGED NotCache
        \/ ThFetch(t) /\ UNCHANGED NotCache
        \/ ThWrite(t) /\ UNCHANGED NotCache
        \/ ThRead(t) /\ UNCHANGED NotCache
        \/ ThStore(t) /\ UNCHANGED NotCache
SpecCache == CacheInit /\ [][CacheNext]_vars

CropInit == PatchIdle /\ CalibIdle /\ TablesIdle /\ ThreadsIdle /\ CropStart /\ ChainIdle /\ NormIdle /\ SdoIdle /\ SoloIdle
CropNext ==
    \/ _crop_resolution /\ UNCHANGED NotCrop
    \/ NormalizeRadiusEditor_call /\ UNCHANGED NotCrop
SpecCrop == CropInit /\ [][CropNext]_vars

-----------------------------------------------------------------------------
(* Claims about the cached tables and the crop *)

\* C9: per table function the body runs at most once, the remote download
\* happens at most once and all callers receive the same object.
C9_TableLoadedOnce ==
    \A fn \in TableFns :
        /\ body_runs[fn] <= 1
        /\ fetches[fn] <= 1
        /\ Cardinality(returned[fn]) <= 1

\* C10: when the first crop has at least resolution pixels in both
\* dimensions, the second crop has shape (resolution, resolution) and lies
\* inside the first crop's array.
C10_SecondCropIsExact ==
    (/\ cr_pc = "returned"
     /\ CropShape(cr_first)[1] >= cr_resolution
     /\ CropShape(cr_first)[2] >= cr_resolution)
    => /\ CropShape(cr_second) = <<cr_resolution, cr_resolution>>
       /\ cr_second.top <= CropShape(cr_first)[1]
       /\ cr_second.right <= CropShape(cr_first)[2]

ChainInit == PatchIdle /\ CalibIdle /\ TablesIdle /\ ThreadsIdle /\ CropIdle /\ ChainStart /\ NormIdle /\ SdoIdle /\ SoloIdle
ChainNext ==
    \/ LoadMapEditor_call /\ UNCHANGED NotChain
    \/ NormalizeExposureEditor_call /\ UNCHANGED NotChain
    \/ NormalizeRadiusEditor_convert /\ UNCHANGED NotChain
    \/ ScaleEditor_call /\ UNCHANGED NotChain
    \/ SubclassEditor_call /\ UNCHANGED NotChain
SpecChain == ChainInit /\ [][ChainNext]_vars

-----------------------------------------------------------------------------
(* Claims about chained editors *)

\* the initial side channel merged with the additions of stages 1..n in
\* order, a later value replacing an earlier one of the same key
RECURSIVE MergedUpTo(_)
MergedUpTo(n) ==
    IF n = 0 THEN ch_init
    ELSE LET before == MergedUpTo(n - 1)
         IN  [k \in DOMAIN before \cup DOMAIN ch_adds[n] |->
                 IF k \in DOMAIN ch_adds[n] THEN ch_adds[n][k] ELSE before[k]]

\* C11: stage k receives the initial side channel merged with the additions
\* of stages 1..k-1 in order; a stage returning only data leaves the side
\* channel as it received it; LoadMapEditor adds its input under 'path'.
C11_SideChannelThreaded ==
    /\ \A k \in 1..Len(ch_seen) :
          /\ ch_seen[k] = MergedUpTo(k - 1)
          /\ ~ch_tupled[k] =>
                (IF k < Len(ch_seen) THEN ch_seen[k + 1] ELSE ch_kwargs) = ch_seen[k]
          /\ ch_kinds[k] = "LoadMapEditor" =>
                LET out == IF k < Len(ch_seen) THEN ch_seen[k + 1] ELSE ch_kwargs
                IN  /\ "path" \in DOMAIN out
                    /\ out["path"].src = ch_data.src
                    /\ out["path"].edits = SubSeq(ch_kinds, 1, k - 1)
    /\ ch_kwargs = MergedUpTo(Len(ch_seen))

\* a later stage has replaced the 'path' an earlier stage added
C11_Witness ==
    /\ Len(ch_seen) = 3
    /\ ch_kinds[1] = "Subclass" /\ ch_kinds[2] = "LoadMapEditor" /\ ~ch_tupled[3]
    /\ "path" \in DOMAIN ch_init
    /\ "path" \in DOMAIN ch_adds[1]
    /\ ch_adds[1]["path"] # ch_init["path"]
    /\ ch_seen[3]["path"] # ch_adds[1]["path"]

\* C12: after convert returns, the editor's fields, the caller's mapping and
\* the warnings filters are as they were before the call.
C12_ConvertHasNoSideEffect ==
    Len(ch_seen) > 0 =>
        /\ ed_fields = ed_before
        /\ ch_arg = ch_seen[Len(ch_seen)]
        /\ warn_filters = warn_before

NormInit ==
    PatchIdle /\ CalibIdle /\ TablesIdle /\ ThreadsIdle /\ CropIdle /\ ChainIdle /\ NormStart /\ SdoIdle /\ SoloIdle
NormNext ==
    \/ MinMaxQuantileNormalizeEditor_call /\ UNCHANGED NotNorm
    \/ WhiteningEditor_call /\ UNCHANGED NotNorm
SpecNorm == NormInit /\ [][NormNext]_vars

-----------------------------------------------------------------------------
(* Claims about the normalizing editors *)

\* C13: every element of MinMaxQuantileNormalizeEditor's output lies in
\* [-1, 1].
C13_QuantileOutputInRange ==
    (nm_pc = "returned" /\ nm_editor = "MinMaxQuantileNormalizeEditor") =>
        \A i \in DOMAIN nm_out :
            /\ nm_out[i].k = "fin"
            /\ -nm_out[i].d <= nm_out[i].v
            /\ nm_out[i].v <= nm_out[i].d

\* C14: ignoring NaN elements, the output of WhiteningEditor has mean 0 and
\* a standard deviation within 1e-6 of 1.  The output's deviation is
\* s / (s + 1e-6) for s = sqrt(V) / n, which is within 1e-6 of 1 exactly
\* when s >= 1 - 1e-6, that is V >= n * n for the integers V and n.
C14_WhitenedMoments ==
    (nm_pc = "returned" /\ nm_editor = "WhiteningEditor") =>
        LET fin == SelectSeq(nm_out, LAMBDA x : x.k = "fin")
        IN  /\ Len(fin) > 0
            /\ SumV(fin) = 0
            /\ nm_div.V >= nm_div.n * nm_div.n

SdoInit ==
    /\ PatchIdle /\ CalibIdle /\ TablesIdle /\ ThreadsIdle /\ CropIdle /\ ChainIdle
    /\ NormIdle /\ SdoStart /\ SoloIdle
SdoNext ==
    \/ downloadDate /\ UNCHANGED NotSdo
    \/ downloadDateEUV /\ UNCHANGED NotSdo
    \/ fetchDataFallback /\ UNCHANGED NotSdo
    \/ fetchDataFallbackEUV /\ UNCHANGED NotSdo
    \/ download /\ UNCHANGED NotSdo
    \/ poolDone /\ UNCHANGED NotSdo
SpecSdo == SdoInit /\ [][SdoNext]_vars

-----------------------------------------------------------------------------
(* Claims about SDODownloader *)

\* C15: every record fetchDataFallback chooses is at the least distance
\* from the requested date among the QUALITY 0 records of its widened
\* query, and each widened query is issued at most once.
C15_FallbackPicksNearest ==
    /\ \A i \in DOMAIN sd_picked : sd_picked[i].dist = sd_nearest[i]
    /\ \A w \in DOMAIN sd_wide : sd_wide[w] <= 1

AllQualityZero(recs) == \A i \in DOMAIN recs : recs[i].q = 0
DirectUsable ==
    /\ Len(sd_hmi) = 1 /\ AllQualityZero(sd_hmi)
    /\ sd_euv_queried /\ Len(sd_euv) = Len(wavelengths) /\ AllQualityZero(sd_euv)

C18_PresentFileHasHeader ==
    \A w \in DOMAIN sd_files : sd_files[w] # "raw"

-----------------------------------------------------------------------------
(* Claims about repeated runs of the patch selector *)

\* how a run that cut patch p ends (lines 132-134)
Outcome(p) ==
    IF NpStdNonZero(PatchElems(p)) THEN [pc |-> "returned", patch |-> p]
    ELSE [pc |-> "raised", patch |-> NoPatch]

\* the ways a second run on the same data and parameters can end when it
\* draws the same pe_u (so takes the same branch) and, where a tie is
\* broken, the same tie-break index: in the random branch lines 114-115
\* draw x and y afresh
SecondRunOutcomes ==
    IF pe_branch = "random"
    THEN {Outcome(OffsetPatch(data, x, y, patch_shape)) :
             x \in 0..(NRows(data) - patch_shape[1]), y \in 0..(NCols(data) - patch_shape[2])}
    ELSE {Outcome(CenteredPatch(data, pe_pos[1], pe_pos[2], patch_shape))}

\* C16: two runs on the same input and parameters that agree on the
\* branch-selection draw and on the tie-break draw end the same way and
\* return the same patch, in both branches.
C16_SameDrawsSamePatch ==
    (pe_pc \in {"returned", "raised"} /\ pe_branch # "none") =>
        \A o \in SecondRunOutcomes :
            /\ o.pc = pe_pc
            /\ pe_pc = "returned" => o.patch = patch

-----------------------------------------------------------------------------
(* SOLODownloader: specification and claims *)

SoloInit ==
    /\ PatchIdle /\ CalibIdle /\ TablesIdle /\ ThreadsIdle /\ CropIdle /\ ChainIdle
    /\ NormIdle /\ SdoIdle /\ SoloStart
SoloNext ==
    \/ soloDownloadDate /\ UNCHANGED NotSolo
    \/ downloadFSI /\ UNCHANGED NotSolo
    \/ downloadHRI /\ UNCHANGED NotSolo
SpecSolo == SoloInit /\ [][SoloNext]_vars

\* C19: after each downloadDate call the target files of the FSI products
\* exist all or not at all, and the call has ended by returning (complete,
\* or with the error logged).
C19_AllOrNone ==
    (so_pc = "idle" /\ so_calls > 0) =>
        /\ \/ \A p \in DOMAIN so_files : so_files[p]
           \/ \A p \in DOMAIN so_files : ~so_files[p]
        /\ so_result \in {"complete", "logged"}

\* a call stored the first product, failed at the second and removed the first
C19_Witness ==
    /\ so_pc = "idle"
    /\ so_result = "logged"
    /\ so_created = {"eui-fsi174-image"}
    /\ \A p \in DOMAIN so_files : ~so_files[p]
    /\ so_calls = 2

\* C20: every target file that existed before a downloadDate call exists
\* after it has returned.
C20_EarlierFilesKept ==
    (so_pc = "idle" /\ so_calls > 0) =>
        \A p \in DOMAIN so_files : so_before[p] => so_files[p]

FsiFinished == so_fsi.found # <<>> \/ so_fsi.raise # "none"
GoodIn(entries) == {i \in DOMAIN entries : entries[i].kind = "good"}

\* C21: when the target file does not exist, downloadFSI fetches the search
\* results by increasing distance from the query date, up to the first one
\* that is a single file with the right CDELT1, which it stores; every
\* fetched file with another CDELT1 is deleted; nothing else is stored; the
\* call raises exactly when the search is empty or has no such entry.
C21_FirstGoodByDistanceStored ==
    FsiFinished =>
        LET tried == so_fsi.tried
            found == so_fsi.found
        IN  /\ \A i \in DOMAIN tried : \A j \in DOMAIN tried :
                  i < j => tried[i].dist <= tried[j].dist
            /\ \A i \in DOMAIN tried : \E j \in DOMAIN found : found[j] = tried[i]
            /\ \A j \in DOMAIN found :
                  (\E i \in DOMAIN tried : tried[i] = found[j])
                  <=> (\A g \in GoodIn(found) : found[j].dist <= found[g].dist)
            /\ \A i \in DOMAIN tried :
                  tried[i].kind = "cdelt" =>
                      \E k \in DOMAIN so_fsi.deleted : so_fsi.deleted[k] = tried[i]
            /\ IF GoodIn(found) = {}
               THEN /\ so_fsi.stored = NoEntry
                    /\ so_fsi.raise = IF found = <<>> THEN "AssertionError" ELSE "Exception"
               ELSE /\ so_fsi.raise = "none"
                    /\ so_fsi.stored.kind = "good"
                    /\ \A g \in GoodIn(found) : so_fsi.stored.dist <= found[g].dist
                    /\ so_fsi.stored = tried[Len(tried)]

\* the nearer entry was fetched, rejected for its CDELT1 and deleted, and
\* the farther one stored, the search having listed the farther one first
C21_Witness ==
    /\ Len(so_fsi.found) = 2
    /\ so_fsi.found[1].dist > so_fsi.found[2].dist
    /\ so_fsi.found[2].kind = "cdelt"
    /\ so_fsi.deleted = <<so_fsi.found[2]>>
    /\ so_fsi.stored = so_fsi.found[1]
    /\ so_fsi.stored.kind = "good"

-----------------------------------------------------------------------------
(* The extremum branch of the patch selector *)

\* runs in which only a draw of 0.0 takes the random branch, on two-channel
\* data whose selected channel is the one that may hold the spot
ExtremumInit ==
    /\ random_selection = 0
    /\ pe_unit = 15099494
    /\ PatchInit
    /\ NChannels(data) = 2
    /\ idx = 1
SpecExtremum == ExtremumInit /\ [][PatchNext]_vars

\* C22: in the extremum branch the pixel picked attains the maximum
\* (Brightest) or minimum (Darkest) of the smoothed channel, the window cut
\* around the clamped centre covers the pixel, and a returned patch holds
\* the data of that pixel at its place.
C22_PatchHoldsExtremum ==
    (pe_pc \in {"returned", "raised"} /\ pe_branch = "extremum") =>
        LET smoothed == GaussianFilter(data[idx])
            r == pe_picked[1]
            q == pe_picked[2]
            r0 == pe_pos[1] - patch_shape[1] \div 2
            q0 == pe_pos[2] - patch_shape[2] \div 2
            r1 == Min2(NRows(data), pe_pos[1] + (patch_shape[1] + 1) \div 2)
            q1 == Min2(NCols(data), pe_pos[2] + (patch_shape[2] + 1) \div 2)
        IN  /\ \A i \in DOMAIN smoothed : \A j \in DOMAIN smoothed[i] :
                  IF pe_kind = "Brightest" THEN smoothed[i][j] <= smoothed[r][q]
                  ELSE smoothed[i][j] >= smoothed[r][q]
            /\ 0 <= r0 /\ r0 <= r /\ r < r1
            /\ 0 <= q0 /\ q0 <= q /\ q < q1
            /\ pe_pc = "returned" =>
                  /\ NRows(patch) = r1 - r0
                  /\ NCols(patch) = q1 - q0
                  /\ \A c \in DOMAIN data : patch[c][r - r0][q - q0] = data[c][r][q]

\* the extremum sits in the last row and column of a 3 x 3 channel and the
\* 2 x 2 patch around the clamped centre is returned
C22_Witness ==
    /\ pe_pc = "returned"
    /\ pe_branch = "extremum"
    /\ pe_kind = "Brightest"
    /\ NRows(data) = 3 /\ NCols(data) = 3
    /\ patch_shape = <<2, 2>>
    /\ pe_picked = <<2, 2>>
    /\ pe_pos = <<2, 2>>
    /\ data[idx][2][2] = 1

====
